---- MODULE Spec2Model ----
(***************************************************************************)
(* Model of src/reproducibility_project/src/engines/mcccs/project.py: the  *)
(* signac-flow project that drives one MCCCS-MN job through               *)
(* melt -> cool -> equil -> prod.                                          *)
(*                                                                         *)
(* Text (template files, run logs, rendered numbers) is a sequence of      *)
(* one-character strings, so that Python's `in` and str.replace are        *)
(* computed as substring search and substring replacement.                 *)
(* The workspace is a function from the names of the files that exist to   *)
(* their contents; the job document is a function from the keys that are   *)
(* set to their values.  A file name is <<base, stage, index>>:            *)
(* <<"run", "melt", 0>> is run.melt, <<"run", "prod", 2>> is run.prod2,    *)
(* <<"fort.77", "", 0>> is fort.77.                                        *)
(***************************************************************************)
EXTENDS Integers, Sequences, FiniteSets, TLC

VARIABLES sp, engine_input, ws, doc, root, system_equilibrated, nProdExec, nBad

vars == <<sp, engine_input, ws, doc, root, system_equilibrated, nProdExec, nBad>>

(***************************************************************************)
(* Bounds of the model.                                                    *)
(***************************************************************************)
\* run_prod is not scheduled any more once the counter has this value
MaxProdRuns == 5
\* at most this many engine invocations end other than normally
MaxBadRuns == 1
\* a generated template is the concatenation of at most this many chunks
MaxChunks == 2

(***************************************************************************)
(* Text.                                                                   *)
(***************************************************************************)
NCHAIN == <<"N", "C", "H", "A", "I", "N">>
LENGTH == <<"L", "E", "N", "G", "T", "H">>
TEMPERATURE == <<"T", "E", "M", "P", "E", "R", "A", "T", "U", "R", "E">>
PRESSURE == <<"P", "R", "E", "S", "S", "U", "R", "E">>
SEED == <<"S", "E", "E", "D">>
VARIABLES_KW == <<"V", "A", "R", "I", "A", "B", "L", "E", "S">>
ProgramEnded == <<"P", "r", "o", "g", "r", "a", "m", " ", "e", "n", "d", "e", "d">>

\* Python: sub in s
Contains(s, sub) ==
  \E i \in 1..(Len(s) - Len(sub) + 1) : \A j \in 1..Len(sub) : s[i + j - 1] = sub[j]

\* Python: s.replace(old, new), leftmost non-overlapping occurrences
RECURSIVE StrReplace(_, _, _)
StrReplace(s, old, new) ==
  IF Len(s) < Len(old) THEN s
  ELSE IF SubSeq(s, 1, Len(old)) = old
       THEN new \o StrReplace(SubSeq(s, Len(old) + 1, Len(s)), old, new)
       ELSE <<Head(s)>> \o StrReplace(Tail(s), old, new)

\* the value of an expression, computed once where it is bound
Only(S) == CHOOSE r \in S : TRUE

\* the lines of a text, each with its line end, as fileinput yields them
RECURSIVE SplitLines(_)
SplitLines(text) ==
  Only({ IF s = <<>> THEN <<>>
         ELSE IF \E i \in 1..Len(s) : s[i] = "\n"
              THEN Only({ <<SubSeq(s, 1, i)>> \o Only({ SplitLines(rest) :
                                                        rest \in {SubSeq(s, i + 1, Len(s))} }) :
                          i \in {j \in 1..Len(s) :
                                   s[j] = "\n" /\ \A k \in 1..(j - 1) : s[k] # "\n"} })
              ELSE <<s>> :
         s \in {text} })

\* for line in file: print(line.replace(kw, value), end="")
RECURSIVE ReplaceInLines(_, _, _)
ReplaceInLines(file, kw, value) ==
  Only({ IF lines = <<>> THEN <<>>
         ELSE StrReplace(Head(lines), kw, value) \o ReplaceInLines(Tail(lines), kw, value) :
         lines \in {file} })

Digits == <<"0", "1", "2", "3", "4", "5", "6", "7", "8", "9">>

\* Python: str(n) for an int n >= 0
RECURSIVE IntStr(_)
IntStr(n) ==
  IF n < 10 THEN <<Digits[n + 1]>>
  ELSE IntStr(n \div 10) \o <<Digits[(n % 10) + 1]>>

\* the digits of n, zero-padded on the left to width digits
RECURSIVE PadStr(_, _)
PadStr(n, width) ==
  IF width = 0 THEN <<>>
  ELSE PadStr(n \div 10, width - 1) \o <<Digits[(n % 10) + 1]>>

\* trailing zeros dropped, one digit kept
RECURSIVE StripZeros(_)
StripZeros(s) ==
  IF Len(s) > 1 /\ s[Len(s)] = "0" THEN StripZeros(SubSeq(s, 1, Len(s) - 1))
  ELSE s

\* Python: str(x) for the float x = n / 10^width, n >= 0, unit = 10^width
FloatStr(n, width, unit) ==
  IntStr(n \div unit) \o <<".">> \o StripZeros(PadStr(n % unit, width))

(***************************************************************************)
(* Files of the job workspace and keys of the job document.                *)
(***************************************************************************)
F(base) == <<base, "", 0>>
Q(base, stage, idx) == <<base, stage, idx>>

file_names == <<"melt", "cool", "equil", "prod">>
Fort4(name) == Q("fort.4", name, 0)

\* job.isfile(f)
isfile(w, f) == f \in DOMAIN w

\* engine outputs in the order the stage runners rename them; "run1a.dat"
\* is renamed to run.<step>, the others to <name>.<step>
Outputs == <<"fort.12", "box1config1a.xyz", "run1a.dat", "config1a.dat",
             "box1movie1a.pdb", "box1movie1a.xyz">>
OutputSet == {Outputs[i] : i \in 1..Len(Outputs)}
QualBase(o) == IF o = "run1a.dat" THEN "run" ELSE o

\* a check that leaves fort.4.prod out
has_fort_files_without_prod(w) ==
  /\ isfile(w, Fort4("melt"))
  /\ isfile(w, Fort4("cool"))
  /\ isfile(w, Fort4("equil"))

has_fort_files(w) ==
  /\ isfile(w, Fort4("melt"))
  /\ isfile(w, Fort4("cool"))
  /\ isfile(w, Fort4("equil"))
  /\ isfile(w, Fort4("prod"))

\* the keywords files_ready looks for
files_ready_keywords == <<NCHAIN, LENGTH, TEMPERATURE, PRESSURE, VARIABLES_KW>>

\* a count that also charges every keyword to a template that is missing
files_ready_count_missing_charged(w) ==
  Cardinality({<<n, i>> \in (1..Len(file_names)) \X (1..Len(files_ready_keywords)) :
                 \/ ~isfile(w, Fort4(file_names[n]))
                 \/ Contains(w[Fort4(file_names[n])], files_ready_keywords[i])})

\* the count c of (file, keyword) pairs with the keyword in the file
files_ready_count(w) ==
  Cardinality({<<n, i>> \in (1..Len(file_names)) \X (1..Len(files_ready_keywords)) :
                 /\ isfile(w, Fort4(file_names[n]))
                 /\ Contains(w[Fort4(file_names[n])], files_ready_keywords[i])})

\* the value files_ready(job) returns and stores in job.doc.files_ready
files_ready(w) == files_ready_count(w) = 0

has_restart_file(w) == isfile(w, F("fort.77"))
has_topmon(w) == isfile(w, F("topmon.inp"))
has_fort77maker(r) == "fort77maker_onebox.py" \in r

\* the lambda precondition shared by the operations
sp_pre(s) ==
  s.engine = "mcccs" /\ s.molecule = "pentaneUA" /\ s.ensemble = "NPT"

equil_replicate_set(d) ==
  IF "equil_replicates_done" \in DOMAIN d
  THEN d["equil_replicates_done"] = 0
  ELSE FALSE

\* the check made against a target other than the one set_prod_replicates writes
replicate_set_other_target(d) ==
  IF "num_prod_replicates" \in DOMAIN d
  THEN d["num_prod_replicates"] = 5
  ELSE FALSE

replicate_set(d) ==
  IF "num_prod_replicates" \in DOMAIN d
  THEN d["num_prod_replicates"] = 4
  ELSE FALSE

\* the comparison made strict
all_prod_replicates_done_strict(d) ==
  IF "prod_replicates_done" \in DOMAIN d /\ "num_prod_replicates" \in DOMAIN d
  THEN d["prod_replicates_done"] > d["num_prod_replicates"]
  ELSE FALSE

all_prod_replicates_done(d) ==
  IF "prod_replicates_done" \in DOMAIN d /\ "num_prod_replicates" \in DOMAIN d
  THEN d["prod_replicates_done"] >= d["num_prod_replicates"]
  ELSE FALSE

\* What a completion predicate returns: Python's True, False, or None when
\* the function falls off its end (run-log file absent).
\* the predicate with an explicit  return False  for an absent log
finished_value_explicit_false(w, stage, idx) ==
  IF isfile(w, Q("run", stage, idx))
  THEN IF Contains(w[Q("run", stage, idx)], ProgramEnded) THEN "True" ELSE "False"
  ELSE "False"

finished_value(w, stage, idx) ==
  IF isfile(w, Q("run", stage, idx))
  THEN IF Contains(w[Q("run", stage, idx)], ProgramEnded) THEN "True" ELSE "False"
  ELSE "None"

melt_finished(w) == finished_value(w, "melt", 0)
cool_finished(w) == finished_value(w, "cool", 0)
equil_finished(w) == finished_value(w, "equil", 0)

\* prod_finished looking at the replicate before the current one
prod_finished_index_previous(d) ==
  IF "prod_replicates_done" \in DOMAIN d THEN d["prod_replicates_done"] - 1 ELSE 0

\* the replicate index prod_finished puts into the log name
prod_finished_index(d) ==
  IF "prod_replicates_done" \in DOMAIN d THEN d["prod_replicates_done"] ELSE 0

prod_finished(w, d) == finished_value(w, "prod", prod_finished_index(d))

\* bool(x) of a condition's return value, as the orchestrator takes it
Truthy(v) == v = "True"

(***************************************************************************)
(* Inputs: state points, the engine_input directory, what one invocation   *)
(* of the engine binary leaves in the workspace.                           *)
(***************************************************************************)
\* sp.box_L_liq is held in tenths of a nm and sp.pressure in Pa (= kPa/1000),
\* so that the floats  box_L_liq * 10  and  pressure / 1000  are exact.
StatePoints ==
  [engine : {"mcccs", "gomc"}, molecule : {"pentaneUA", "methaneUA"},
   ensemble : {"NPT", "NVT"}, forcefield_name : {"trappe-ua", "gaff"},
   replica : {0}, N_liquid : {300}, box_L_liq : {25}, temperature : {372},
   pressure : {101325}]

Sp == <<" ">>
Nl == <<"\n">>
TplFull == NCHAIN \o Sp \o LENGTH \o Nl \o TEMPERATURE \o Sp \o PRESSURE
           \o Nl \o SEED \o Nl
TplSeedOnly == SEED \o Nl
TplVariables == NCHAIN \o Sp \o VARIABLES_KW \o Nl

AllFour(t) == [f \in {Fort4(file_names[n]) : n \in 1..4} |-> t]
Without(w, f) == [g \in DOMAIN w \ {f} |-> w[g]]
Put(w, f, c) == [g \in DOMAIN w \cup {f} |-> IF g = f THEN c ELSE w[g]]

\* the fort.4.* files of src/engine_input/mcccs/<molecule>/
SourceDirs ==
  { AllFour(TplFull),
    AllFour(TplSeedOnly),
    Put(AllFour(TplFull), Fort4("prod"), TplVariables),
    Without(AllFour(TplFull), Fort4("prod")) }

LogEnded == <<"c", "y", "c", "l", "e", "\n">> \o ProgramEnded \o Nl
LogTruncated == <<"c", "y", "c", "l", "e", "\n">> \o SubSeq(ProgramEnded, 1, 9)
LogContents == {LogEnded, LogTruncated}

Data == <<"d">>
Config == <<"a">>
ConfigEarly == <<"b">>

\* one invocation of topmon: the output files it writes, the text of
\* run1a.dat and of config1a.dat if it writes them.  A normal run, a run
\* that ends without the termination marker, a run that writes nothing (the
\* binary did not start), a run that dies before writing config1a.dat, a
\* run that writes everything but fort.12, and one that writes only fort.12.
EngineOutcomes ==
  { [made |-> OutputSet, log |-> LogEnded, cfg |-> Config],
    [made |-> OutputSet, log |-> LogTruncated, cfg |-> ConfigEarly],
    [made |-> {}, log |-> LogTruncated, cfg |-> Config],
    [made |-> OutputSet \ {"config1a.dat", "box1movie1a.pdb", "box1movie1a.xyz"},
     log |-> LogEnded, cfg |-> Config],
    [made |-> OutputSet \ {"fort.12"}, log |-> LogEnded, cfg |-> Config],
    [made |-> {"fort.12"}, log |-> LogTruncated, cfg |-> Config] }

Normal == [made |-> OutputSet, log |-> LogEnded, cfg |-> Config]

OutputContent(o, out) ==
  IF o = "run1a.dat" THEN out.log
  ELSE IF o = "config1a.dat" THEN out.cfg
  ELSE Data

(***************************************************************************)
(* File operations.                                                        *)
(***************************************************************************)
\* shutil.move(src, dst) of an existing src; an existing dst is replaced
Move(w, src, dst) ==
  [g \in (DOMAIN w \ {src}) \cup {dst} |-> IF g = dst THEN w[src] ELSE w[g]]

\* process.communicate(): the engine has written the files of out.made
Engine(w, out) ==
  [g \in DOMAIN w \cup {F(o) : o \in out.made} |->
     IF \E o \in out.made : g = F(o)
     THEN OutputContent(CHOOSE o \in out.made : g = F(o), out)
     ELSE w[g]]

\* the renames without the copy of config1a.dat to fort.77
RECURSIVE Harvest_without_restart_copy(_, _, _, _)
Harvest_without_restart_copy(w, i, stage, idx) ==
  IF i > Len(Outputs) THEN w
  ELSE IF ~isfile(w, F(Outputs[i])) THEN w
  ELSE Harvest_without_restart_copy(
         Move(w, F(Outputs[i]), Q(QualBase(Outputs[i]), stage, idx)), i + 1, stage, idx)

\* The shutil.move / shutil.copy lines of a stage runner from the i-th
\* output on; a missing source raises and leaves the rest undone.
RECURSIVE Harvest(_, _, _, _)
Harvest(w, i, stage, idx) ==
  IF i > Len(Outputs) THEN w
  ELSE IF ~isfile(w, F(Outputs[i])) THEN w
  ELSE LET o == Outputs[i]
           w1 == IF o = "config1a.dat" THEN Put(w, F("fort.77"), w[F(o)]) ELSE w
       IN Harvest(Move(w1, F(o), Q(QualBase(o), stage, idx)), i + 1, stage, idx)

\* the body of a stage runner from os.chdir on: shutil.copyfile raises when
\* the template is missing, before the engine is invoked
RunStage(w, name, stage, idx, out) ==
  IF ~isfile(w, Fort4(name)) THEN w
  ELSE Harvest(Engine(Put(w, F("fort.4"), w[Fort4(name)]), out), 1, stage, idx)

\* the runner ends in an uncaught error
Raises(w, name, out) ==
  \/ ~isfile(w, Fort4(name))
  \/ \E o \in OutputSet : ~isfile(Engine(w, out), F(o))

\* replace_keyword_fort_files: the text of one template after the five passes
replace_keywords == <<NCHAIN, LENGTH, TEMPERATURE, PRESSURE, SEED>>
replace_variables(s) ==
  << IntStr(s.N_liquid),
     FloatStr(s.box_L_liq * 10, 1, 10),
     IntStr(s.temperature),
     FloatStr(s.pressure, 6, 1000000),
     IntStr(s.replica) >>

RECURSIVE ReplaceFrom(_, _, _)
ReplaceFrom(text, i, s) ==
  IF i > Len(replace_keywords) THEN text
  ELSE Only({ ReplaceFrom(replaced, i + 1, s) :
              replaced \in {ReplaceInLines(SplitLines(text), replace_keywords[i],
                                           replace_variables(s)[i])} })

(***************************************************************************)
(* Eligibility under the orchestrator: all preconditions hold and not all  *)
(* postconditions hold.                                                    *)
(***************************************************************************)
Eligible_set_equil_replicates ==
  sp_pre(sp) /\ ~equil_replicate_set(doc)

Eligible_set_prod_replicates ==
  sp_pre(sp) /\ ~replicate_set(doc)

Eligible_copy_files ==
  sp_pre(sp) /\ ~has_fort_files(ws)

Eligible_copy_fort77maker ==
  sp_pre(sp) /\ ~has_fort77maker(root)

Eligible_copy_topmon ==
  sp_pre(sp) /\ ~has_topmon(ws)

Eligible_replace_keyword_fort_files ==
  sp_pre(sp) /\ has_fort_files(ws) /\ ~files_ready(ws)

Eligible_make_restart_file ==
  sp_pre(sp) /\ has_fort77maker(root) /\ ~has_restart_file(ws)

Eligible_run_melt ==
  /\ sp_pre(sp)
  /\ has_restart_file(ws)
  /\ has_fort_files(ws)
  /\ has_topmon(ws)
  /\ files_ready(ws)
  /\ ~Truthy(melt_finished(ws))

\* run_cool without its precondition melt_finished
Eligible_run_cool_unchained ==
  /\ sp_pre(sp)
  /\ has_restart_file(ws)
  /\ ~Truthy(cool_finished(ws))

Eligible_run_cool ==
  /\ sp_pre(sp)
  /\ has_restart_file(ws)
  /\ Truthy(melt_finished(ws))
  /\ ~Truthy(cool_finished(ws))

Eligible_run_equil ==
  /\ sp_pre(sp)
  /\ has_restart_file(ws)
  /\ Truthy(cool_finished(ws))
  /\ ~(Truthy(equil_finished(ws)) /\ system_equilibrated)

Eligible_run_prod ==
  /\ sp_pre(sp)
  /\ has_restart_file(ws)
  /\ Truthy(equil_finished(ws))
  /\ ~(Truthy(prod_finished(ws, doc)) /\ all_prod_replicates_done(doc))

(***************************************************************************)
(* The state after construction: an empty workspace and document.          *)
(***************************************************************************)
Empty == [g \in {} |-> <<>>]

Init ==
  /\ sp \in StatePoints
  /\ engine_input \in SourceDirs
  /\ ws = Empty
  /\ doc = Empty
  /\ root = {}
  /\ system_equilibrated = FALSE
  /\ nProdExec = 0
  /\ nBad = 0

\* the count of invocations that did not end normally, capped
Invoked(out) ==
  IF out = Normal THEN nBad' = nBad
  ELSE nBad < MaxBadRuns /\ nBad' = nBad + 1

(***************************************************************************)
(* Operations.                                                             *)
(***************************************************************************)
\* the orchestrator evaluates the label files_ready
files_ready_label ==
  /\ doc' = Put(doc, "files_ready", files_ready(ws))
  /\ UNCHANGED <<sp, engine_input, ws, root, system_equilibrated, nProdExec, nBad>>

set_equil_replicates ==
  /\ Eligible_set_equil_replicates
  /\ doc' = Put(doc, "equil_replicates_done", 0)
  /\ UNCHANGED <<sp, engine_input, ws, root, system_equilibrated, nProdExec, nBad>>

set_prod_replicates ==
  /\ Eligible_set_prod_replicates
  /\ doc' = Put(Put(doc, "num_prod_replicates", 4), "prod_replicates_done", 0)
  /\ nProdExec' = 0
  /\ UNCHANGED <<sp, engine_input, ws, root, system_equilibrated, nBad>>

copy_files ==
  /\ Eligible_copy_files
  /\ ws' = [g \in DOMAIN ws \cup DOMAIN engine_input |->
              IF g \in DOMAIN engine_input THEN engine_input[g] ELSE ws[g]]
  /\ UNCHANGED <<sp, engine_input, doc, root, system_equilibrated, nProdExec, nBad>>

copy_fort77maker ==
  /\ Eligible_copy_fort77maker
  /\ root' = root \cup {"fort77maker_onebox.py"}
  /\ UNCHANGED <<sp, engine_input, ws, doc, system_equilibrated, nProdExec, nBad>>

copy_topmon ==
  /\ Eligible_copy_topmon
  /\ ws' = Put(ws, F("topmon.inp"), Data)
  /\ UNCHANGED <<sp, engine_input, doc, root, system_equilibrated, nProdExec, nBad>>

\* the postcondition files_ready was evaluated (False) before the run
replace_keyword_fort_files ==
  /\ Eligible_replace_keyword_fort_files
  /\ ws' = [g \in DOMAIN ws |->
              IF \E n \in 1..Len(file_names) : g = Fort4(file_names[n])
              THEN ReplaceFrom(ws[g], 1, sp)
              ELSE ws[g]]
  /\ doc' = Put(doc, "files_ready", FALSE)
  /\ UNCHANGED <<sp, engine_input, root, system_equilibrated, nProdExec, nBad>>

\* get_system raises for a force field other than trappe-ua, oplsaa, spce
make_restart_file ==
  /\ Eligible_make_restart_file
  /\ IF sp.forcefield_name \in {"trappe-ua", "oplsaa", "spce"}
     THEN ws' = Put(Put(ws, F("fort.77"), <<"i">>), F("initial_structure.xyz"), Data)
     ELSE ws' = ws
  /\ UNCHANGED <<sp, engine_input, doc, root, system_equilibrated, nProdExec, nBad>>

\* the precondition files_ready was evaluated (True) before the run
run_melt_with(out) ==
  /\ Eligible_run_melt
  /\ ws' = RunStage(ws, "melt", "melt", 0, out)
  /\ doc' = Put(doc, "files_ready", TRUE)
  /\ Invoked(out)
  /\ UNCHANGED <<sp, engine_input, root, system_equilibrated, nProdExec>>

run_melt == \E out \in EngineOutcomes : run_melt_with(out)

run_cool_with(out) ==
  /\ Eligible_run_cool
  /\ ws' = RunStage(ws, "cool", "cool", 0, out)
  /\ Invoked(out)
  /\ UNCHANGED <<sp, engine_input, doc, root, system_equilibrated, nProdExec>>

run_cool == \E out \in EngineOutcomes : run_cool_with(out)

\* system_equilibrated is named as a postcondition (line 460) but defined
\* nowhere in the source: its value after a run is any boolean
run_equil_with(out) ==
  /\ Eligible_run_equil
  /\ ws' = RunStage(ws, "equil", "equil", 0, out)
  /\ system_equilibrated' \in BOOLEAN
  /\ Invoked(out)
  /\ UNCHANGED <<sp, engine_input, doc, root, nProdExec>>

run_equil == \E out \in EngineOutcomes : run_equil_with(out)

\* the replicate index read before the increment
ProdReplicate_before_increment(d) == d["prod_replicates_done"] - 1

\* replicate = job.doc.prod_replicates_done, read after the increment
ProdReplicate(d) == d["prod_replicates_done"]

\* the counter incremented only after the outputs have been renamed
run_prod_with_increment_last(out) ==
  /\ Eligible_run_prod
  /\ IF "prod_replicates_done" \in DOMAIN doc
     THEN /\ doc["prod_replicates_done"] < MaxProdRuns
          /\ doc' = IF Raises(ws, "prod", out) THEN doc
                    ELSE Put(doc, "prod_replicates_done", doc["prod_replicates_done"] + 1)
          /\ nProdExec' = nProdExec + 1
          /\ ws' = RunStage(ws, "prod", "prod", doc["prod_replicates_done"] + 1, out)
          /\ Invoked(out)
     ELSE UNCHANGED <<doc, nProdExec, ws, nBad>>
  /\ UNCHANGED <<sp, engine_input, root, system_equilibrated>>

\* job.doc.prod_replicates_done += 1 raises when the field is not set
run_prod_with(out) ==
  /\ Eligible_run_prod
  /\ IF "prod_replicates_done" \in DOMAIN doc
     THEN /\ doc["prod_replicates_done"] < MaxProdRuns
          /\ doc' = Put(doc, "prod_replicates_done", doc["prod_replicates_done"] + 1)
          /\ nProdExec' = nProdExec + 1
          /\ ws' = RunStage(ws, "prod", "prod", ProdReplicate(doc'), out)
          /\ Invoked(out)
     ELSE UNCHANGED <<doc, nProdExec, ws, nBad>>
  /\ UNCHANGED <<sp, engine_input, root, system_equilibrated>>

run_prod == \E out \in EngineOutcomes : run_prod_with(out)

Next ==
  \/ set_equil_replicates
  \/ set_prod_replicates
  \/ copy_files
  \/ copy_fort77maker
  \/ copy_topmon
  \/ replace_keyword_fort_files
  \/ make_restart_file
  \/ run_melt
  \/ run_cool
  \/ run_equil
  \/ run_prod
  \/ files_ready_label

Spec == Init /\ [][Next]_vars

(***************************************************************************)
(* The template files alone: a workspace that holds any subset of the four *)
(* fort.4.* files, some of them with a generated text and the others with  *)
(* text without keywords, under files_ready and the resolver.              *)
(***************************************************************************)
Chunks ==
  { NCHAIN, LENGTH, TEMPERATURE, PRESSURE, SEED, VARIABLES_KW,
    Nl, <<"S", "E">>, <<"E", "D">> }

RECURSIVE Texts(_)
Texts(n) ==
  IF n = 0 THEN {<<>>}
  ELSE Texts(n - 1) \cup {t \o c : t \in Texts(n - 1), c \in Chunks}

Plain == <<"8", " ", "x", "\n">>

TemplateNames == {Fort4(file_names[n]) : n \in 1..Len(file_names)}

StatePointsT ==
  [engine : {"mcccs"}, molecule : {"pentaneUA"}, ensemble : {"NPT"},
   forcefield_name : {"trappe-ua"}, replica : {0, 7}, N_liquid : {300},
   box_L_liq : {25}, temperature : {372}, pressure : {101325}]

InitT ==
  /\ sp \in StatePointsT
  /\ engine_input = Empty
  /\ \E P \in SUBSET TemplateNames : \E H \in SUBSET P : \E t \in Texts(MaxChunks) :
       ws = [g \in P |-> IF g \in H THEN t ELSE Plain]
  /\ doc = Empty
  /\ root = {}
  /\ system_equilibrated = FALSE
  /\ nProdExec = 0
  /\ nBad = 0

NextT ==
  \/ replace_keyword_fort_files
  \/ files_ready_label

SpecT == InitT /\ [][NextT]_vars

(***************************************************************************)
(* The orchestrator run to completion: a job the operations apply to, a    *)
(* source directory with the four templates, every engine invocation       *)
(* normal, and every operation that stays eligible eventually executed.    *)
(***************************************************************************)
CompleteSourceDirs == {d \in SourceDirs : has_fort_files(d)}

InitLive ==
  /\ sp \in StatePointsT
  /\ engine_input \in CompleteSourceDirs
  /\ ws = Empty
  /\ doc = Empty
  /\ root = {}
  /\ system_equilibrated = FALSE
  /\ nProdExec = 0
  /\ nBad = 0

NextLive ==
  \/ set_equil_replicates
  \/ set_prod_replicates
  \/ copy_files
  \/ copy_fort77maker
  \/ copy_topmon
  \/ replace_keyword_fort_files
  \/ make_restart_file
  \/ run_melt_with(Normal)
  \/ run_cool_with(Normal)
  \/ run_equil_with(Normal)
  \/ run_prod_with(Normal)
  \/ files_ready_label

\* the orchestrator keeps submitting every operation that is eligible
Fairness ==
  /\ WF_vars(set_equil_replicates)
  /\ WF_vars(set_prod_replicates)
  /\ WF_vars(copy_files)
  /\ WF_vars(copy_fort77maker)
  /\ WF_vars(copy_topmon)
  /\ WF_vars(replace_keyword_fort_files)
  /\ WF_vars(make_restart_file)
  /\ WF_vars(run_melt_with(Normal))
  /\ WF_vars(run_cool_with(Normal))
  /\ WF_vars(run_equil_with(Normal))
  /\ WF_vars(run_prod_with(Normal))

SpecLive == InitLive /\ [][NextLive]_vars /\ Fairness

(***************************************************************************)
(* Properties.                                                             *)
(***************************************************************************)
LogEndedIn(w, stage, idx) ==
  isfile(w, Q("run", stage, idx)) /\ Contains(w[Q("run", stage, idx)], ProgramEnded)

Set(d, key) == key \in DOMAIN d

\* C1: under the orchestrator run_cool starts only in a state where run.melt
\* exists and contains "Program ended", run_equil only where run.cool does,
\* and run_prod only where run.equil does.
C1_StageOrdering ==
  [][ /\ run_cool => LogEndedIn(ws, "melt", 0)
      /\ run_equil => LogEndedIn(ws, "cool", 0)
      /\ run_prod => LogEndedIn(ws, "equil", 0) ]_vars

\* every later stage has been started at least once
C1_Witness ==
  /\ isfile(ws, Q("fort.12", "cool", 0))
  /\ isfile(ws, Q("fort.12", "equil", 0))
  /\ isfile(ws, Q("fort.12", "prod", 1))

\* C2: whenever both counters are set prod_replicates_done <= num_prod_replicates,
\* and when run_prod's preconditions hold and it is no longer eligible (the
\* production stage is done) prod_replicates_done = num_prod_replicates.
C2_CounterBounded ==
  (Set(doc, "prod_replicates_done") /\ Set(doc, "num_prod_replicates")) =>
    /\ doc["prod_replicates_done"] <= doc["num_prod_replicates"]
    /\ (/\ sp_pre(sp) /\ has_restart_file(ws) /\ Truthy(equil_finished(ws))
        /\ ~Eligible_run_prod)
       => doc["prod_replicates_done"] = doc["num_prod_replicates"]

\* the files with a prod-qualified name
ProdFiles(w) == {g \in DOMAIN w : g[2] = "prod" /\ g[1] # "fort.4"}

\* C3: an execution of run_prod on initialised counters adds exactly 1 to
\* prod_replicates_done, the k-th such execution writes only artifacts with
\* index k >= 1, and it leaves every prod-qualified artifact that existed
\* before in place with its content.
C3_ProdIndex ==
  [][ (run_prod /\ Set(doc, "prod_replicates_done")) =>
        /\ doc'["prod_replicates_done"] = doc["prod_replicates_done"] + 1
        /\ \A g \in ProdFiles(ws') \ ProdFiles(ws) :
             g[3] = nProdExec' /\ g[3] >= 1
        /\ \A g \in ProdFiles(ws) : g \in ProdFiles(ws') /\ ws'[g] = ws[g] ]_vars

\* two executions have left run.prod1 and run.prod2
C3_Witness ==
  /\ isfile(ws, Q("run", "prod", 1))
  /\ isfile(ws, Q("run", "prod", 2))
  /\ nProdExec = 2

\* C4: once set, prod_replicates_done never decreases, only run_prod changes
\* it, and set_prod_replicates does not run once num_prod_replicates == 4.
C4_Monotonic ==
  [][ /\ Set(doc, "prod_replicates_done") =>
           /\ Set(doc', "prod_replicates_done")
           /\ doc'["prod_replicates_done"] >= doc["prod_replicates_done"]
           /\ (doc'["prod_replicates_done"] # doc["prod_replicates_done"] => run_prod)
      /\ (Set(doc, "num_prod_replicates") /\ doc["num_prod_replicates"] = 4)
           => ~set_prod_replicates ]_vars

C4_Witness ==
  Set(doc, "prod_replicates_done") /\ doc["prod_replicates_done"] = 3

\* the stage progress of the job
Progress(w, d) ==
  << melt_finished(w), cool_finished(w), equil_finished(w),
     IF Set(d, "prod_replicates_done") THEN d["prod_replicates_done"] ELSE -1 >>

\* run_prod also raises at  job.doc.prod_replicates_done += 1
RaisesProd(w, d, out) == ~Set(d, "prod_replicates_done") \/ Raises(w, "prod", out)

\* C5: a stage runner that ends in an uncaught error leaves the job where it
\* was: its completion predicate is not satisfied, no later stage becomes
\* eligible, the stage progress including prod_replicates_done is unchanged,
\* and the same operation is still eligible.
C5_FailedRunKeepsState ==
  [][ \A out \in EngineOutcomes :
        /\ (run_melt_with(out) /\ Raises(ws, "melt", out)) =>
             /\ ~Truthy(melt_finished(ws'))
             /\ ~(~Eligible_run_cool /\ Eligible_run_cool')
             /\ Progress(ws', doc') = Progress(ws, doc)
             /\ Eligible_run_melt'
        /\ (run_cool_with(out) /\ Raises(ws, "cool", out)) =>
             /\ ~Truthy(cool_finished(ws'))
             /\ ~(~Eligible_run_equil /\ Eligible_run_equil')
             /\ Progress(ws', doc') = Progress(ws, doc)
             /\ Eligible_run_cool'
        /\ (run_equil_with(out) /\ Raises(ws, "equil", out)) =>
             /\ ~Truthy(equil_finished(ws'))
             /\ ~(~Eligible_run_prod /\ Eligible_run_prod')
             /\ Progress(ws', doc') = Progress(ws, doc)
             /\ Eligible_run_equil'
        /\ (run_prod_with(out) /\ RaisesProd(ws, doc, out)) =>
             /\ ~Truthy(prod_finished(ws', doc'))
             /\ Progress(ws', doc') = Progress(ws, doc)
             /\ Eligible_run_prod' ]_vars

\* the text of a template holds one of the given keywords
HasKeyword(text, kws) == \E i \in 1..Len(kws) : Contains(text, kws[i])

\* the placeholder tokens the data model names
AllTokens == <<NCHAIN, LENGTH, TEMPERATURE, PRESSURE, SEED, VARIABLES_KW>>

\* C6: when the four templates exist and each holds a placeholder token,
\* after replace_keyword_fort_files none of the tokens NCHAIN, LENGTH,
\* TEMPERATURE, PRESSURE, SEED, VARIABLES is left in any of them and
\* files_ready, called next, returns true and stores true.
C6_ResolveEndToEnd ==
  [][ ( /\ replace_keyword_fort_files
        /\ \A g \in TemplateNames : HasKeyword(ws[g], AllTokens) ) =>
      /\ \A g \in TemplateNames : ~HasKeyword(ws'[g], AllTokens)
      /\ files_ready(ws') ]_vars

\* C7: files_ready returns true only if none of the five keywords the
\* resolver substitutes is in any template file present in the workspace.
C7_ReadyMeansResolved ==
  files_ready(ws) =>
    \A g \in TemplateNames \cap DOMAIN ws : ~HasKeyword(ws[g], replace_keywords)

Stages == {<<"melt", 0>>, <<"cool", 0>>, <<"equil", 0>>,
           <<"prod", prod_finished_index(doc)>>}
FinishedOf(st) ==
  IF st[1] = "melt" THEN melt_finished(ws)
  ELSE IF st[1] = "cool" THEN cool_finished(ws)
  ELSE IF st[1] = "equil" THEN equil_finished(ws)
  ELSE prod_finished(ws, doc)

\* C8: each completion predicate returns the boolean False when its run log
\* is absent, True only when the log contains "Program ended", and False for
\* any other content of the log.
C8_FinishedOriginal ==
  \A st \in Stages :
    /\ ~isfile(ws, Q("run", st[1], st[2])) => FinishedOf(st) = "False"
    /\ FinishedOf(st) = "True" => LogEndedIn(ws, st[1], st[2])
    /\ (isfile(ws, Q("run", st[1], st[2])) /\ ~LogEndedIn(ws, st[1], st[2]))
         => FinishedOf(st) = "False"

\* C8 as amended: with the run log absent a completion predicate returns
\* None (falsy, not the boolean False); it returns True exactly when the log
\* exists and contains "Program ended" (as the engine's complete log does),
\* and False for an existing log without it (as the truncated log).
C8_FinishedAmended ==
  \A st \in Stages :
    /\ ~isfile(ws, Q("run", st[1], st[2])) => FinishedOf(st) = "None"
    /\ FinishedOf(st) = "True" <=> LogEndedIn(ws, st[1], st[2])
    /\ (isfile(ws, Q("run", st[1], st[2])) /\ ~LogEndedIn(ws, st[1], st[2]))
         => FinishedOf(st) = "False"
    /\ (isfile(ws, Q("run", st[1], st[2])) /\ ws[Q("run", st[1], st[2])] = LogEnded)
         => FinishedOf(st) = "True"
    /\ (isfile(ws, Q("run", st[1], st[2])) /\ ws[Q("run", st[1], st[2])] = LogTruncated)
         => FinishedOf(st) = "False"

\* a complete log, a truncated log and an absent log side by side
C8_Witness ==
  /\ isfile(ws, Q("run", "melt", 0)) /\ ws[Q("run", "melt", 0)] = LogEnded
  /\ isfile(ws, Q("run", "cool", 0)) /\ ws[Q("run", "cool", 0)] = LogTruncated
  /\ ~isfile(ws, Q("run", "equil", 0))

\* C9: all_prod_replicates_done is false while a counter field is missing and
\* for every value 0..3 of prod_replicates_done, and it turns true only in a
\* step that brings prod_replicates_done to exactly 4.
C9_AllDoneAtFour ==
  /\ [](/\ (~Set(doc, "prod_replicates_done") \/ ~Set(doc, "num_prod_replicates"))
             => ~all_prod_replicates_done(doc)
        /\ (Set(doc, "prod_replicates_done") /\ doc["prod_replicates_done"] \in 0..3)
             => (doc["num_prod_replicates"] = 4 /\ ~all_prod_replicates_done(doc))
        /\ (Set(doc, "prod_replicates_done") /\ doc["prod_replicates_done"] >= 4)
             => all_prod_replicates_done(doc))
  /\ [][ (~all_prod_replicates_done(doc) /\ all_prod_replicates_done(doc'))
           => doc'["prod_replicates_done"] = 4 ]_vars

C9_Witness ==
  /\ Set(doc, "prod_replicates_done") /\ doc["prod_replicates_done"] = 4
  /\ all_prod_replicates_done(doc)

\* C10: at most one of run_melt, run_cool, run_equil, run_prod is eligible.
C10_OneRunnerEligible ==
  Cardinality({ r \in {"run_melt", "run_cool", "run_equil", "run_prod"} :
                  \/ r = "run_melt" /\ Eligible_run_melt
                  \/ r = "run_cool" /\ Eligible_run_cool
                  \/ r = "run_equil" /\ Eligible_run_equil
                  \/ r = "run_prod" /\ Eligible_run_prod }) <= 1

\* the prod-qualified artifacts of replicate k
ProdFilesOf(w, k) == {g \in ProdFiles(w) : g[3] = k}

\* C11: a run_prod execution that raises before any output is renamed has
\* still added 1 to prod_replicates_done, so the counter is k while no
\* artifact of replicate k exists; the next execution writes replicate k+1,
\* and a replicate at or below the counter that has no artifact never gets one.
C11_SkippedReplicate ==
  [][ Set(doc, "prod_replicates_done") =>
        /\ \A out \in EngineOutcomes :
             (run_prod_with(out) /\ Raises(ws, "prod", out) /\ ProdFiles(ws') = ProdFiles(ws))
               => /\ doc'["prod_replicates_done"] = doc["prod_replicates_done"] + 1
                  /\ ProdFilesOf(ws', doc'["prod_replicates_done"]) = {}
        /\ run_prod =>
             \A g \in ProdFiles(ws') \ ProdFiles(ws) :
               g[3] = doc["prod_replicates_done"] + 1
        /\ \A k \in 1..doc["prod_replicates_done"] :
             ProdFilesOf(ws, k) = {} => ProdFilesOf(ws', k) = {} ]_vars

\* replicate 1 was skipped by a failed execution and replicate 2 was written
C11_Witness ==
  /\ Set(doc, "prod_replicates_done") /\ doc["prod_replicates_done"] = 2
  /\ ProdFilesOf(ws, 1) = {}
  /\ LogEndedIn(ws, "prod", 2)

\* the four templates exist and none holds a placeholder token
TemplatesResolved(w) ==
  /\ has_fort_files(w)
  /\ \A g \in TemplateNames : ~HasKeyword(w[g], AllTokens)

\* C12: whenever a stage runner starts, fort.77 exists, the four templates
\* fort.4.melt, fort.4.cool, fort.4.equil, fort.4.prod exist, and none of them
\* contains NCHAIN, LENGTH, TEMPERATURE, PRESSURE, SEED or VARIABLES.
C12_RunnerInputsPresent ==
  [][ (run_melt \/ run_cool \/ run_equil \/ run_prod) =>
        (has_restart_file(ws) /\ TemplatesResolved(ws)) ]_vars

\* C13: prod_finished looks at run.prodK with K the current value of
\* prod_replicates_done (0 when unset): it is not satisfied while the counter
\* is unset or 0, as run.prod0 is never created, and after a run_prod
\* execution has started replicate K it is satisfied exactly when the log of
\* that replicate contains "Program ended", whatever earlier logs contain.
C13_ProdFinishedTracksCounter ==
  /\ []((~Set(doc, "prod_replicates_done") \/ doc["prod_replicates_done"] = 0) =>
          (~isfile(ws, Q("run", "prod", 0)) /\ ~Truthy(prod_finished(ws, doc))))
  /\ []((Set(doc, "prod_replicates_done") /\ doc["prod_replicates_done"] >= 1) =>
          (Truthy(prod_finished(ws, doc))
             <=> LogEndedIn(ws, "prod", doc["prod_replicates_done"])))
  /\ [][ (run_prod /\ Set(doc, "prod_replicates_done")) =>
           (Truthy(prod_finished(ws', doc'))
              <=> LogEndedIn(ws', "prod", doc["prod_replicates_done"] + 1)) ]_vars

\* replicate 1 ended, replicate 2 was started and its log lacks the marker
C13_Witness ==
  /\ Set(doc, "prod_replicates_done") /\ doc["prod_replicates_done"] = 2
  /\ LogEndedIn(ws, "prod", 1)
  /\ isfile(ws, Q("run", "prod", 2))
  /\ ~LogEndedIn(ws, "prod", 2)
  /\ ~Truthy(prod_finished(ws, doc))

\* the artifacts of the stages before stage, and of earlier replicates of it
EarlierArtifacts(w, stage, idx) ==
  {g \in DOMAIN w :
     /\ g[1] # "fort.4"
     /\ \/ \E i, j \in 1..Len(file_names) :
             i < j /\ file_names[i] = g[2] /\ file_names[j] = stage
        \/ g[2] = stage /\ g[3] < idx}

\* the step of a runner of the given stage and index that ended without error
StageFrame(stage, idx) ==
  /\ \A o \in OutputSet :
       ~isfile(ws', F(o)) /\ isfile(ws', Q(QualBase(o), stage, idx))
  /\ isfile(ws', F("fort.77"))
  /\ ws'[F("fort.77")] = ws'[Q("config1a.dat", stage, idx)]
  /\ \A g \in TemplateNames \cap DOMAIN ws : isfile(ws', g) /\ ws'[g] = ws[g]
  /\ \A g \in EarlierArtifacts(ws, stage, idx) : isfile(ws', g) /\ ws'[g] = ws[g]

\* C14: after a stage runner has completed without error for stage S, none of
\* fort.12, box1config1a.xyz, run1a.dat, config1a.dat, box1movie1a.pdb,
\* box1movie1a.xyz exists under its unqualified name, each exists under its
\* S-qualified name (run1a.dat as run.S), fort.77 has the content of
\* config1a.dat.S, and the templates and every artifact of earlier stages
\* are unchanged.
C14_StageFrame ==
  [][ \A out \in EngineOutcomes :
        /\ (run_melt_with(out) /\ ~Raises(ws, "melt", out)) => StageFrame("melt", 0)
        /\ (run_cool_with(out) /\ ~Raises(ws, "cool", out)) => StageFrame("cool", 0)
        /\ (run_equil_with(out) /\ ~Raises(ws, "equil", out)) => StageFrame("equil", 0)
        /\ (run_prod_with(out) /\ ~RaisesProd(ws, doc, out)) =>
             StageFrame("prod", doc["prod_replicates_done"] + 1) ]_vars

\* two replicates harvested with different restart configurations: fort.77
\* holds the one of the later replicate
C14_Witness ==
  /\ isfile(ws, Q("config1a.dat", "prod", 1))
  /\ isfile(ws, Q("config1a.dat", "prod", 2))
  /\ ws[Q("config1a.dat", "prod", 1)] # ws[Q("config1a.dat", "prod", 2)]
  /\ ws[F("fort.77")] = ws[Q("config1a.dat", "prod", 2)]
  /\ \A o \in OutputSet : ~isfile(ws, F(o))
  /\ Set(doc, "prod_replicates_done") /\ doc["prod_replicates_done"] = 2

\* C15: files_ready stores the value it returns in job.doc.files_ready, a
\* second evaluation on the same files returns the same value and leaves the
\* document as it is, and a template that does not exist is skipped: when
\* only some of the four templates (or none) exist and none of those holds a
\* keyword files_ready looks for, it returns true.
C15_FilesReadyPersisted ==
  /\ [][ files_ready_label =>
           /\ Set(doc', "files_ready")
           /\ doc'["files_ready"] = files_ready(ws)
           /\ ws' = ws
           /\ files_ready(ws') = files_ready(ws)
           /\ Put(doc', "files_ready", files_ready(ws')) = doc' ]_vars
  /\ []((\A g \in TemplateNames \cap DOMAIN ws :
           ~HasKeyword(ws[g], files_ready_keywords))
        => files_ready(ws))

\* some but not all templates exist and the stored value is true
C15_Witness ==
  /\ TemplateNames \cap DOMAIN ws # {}
  /\ ~has_fort_files(ws)
  /\ Set(doc, "files_ready") /\ doc["files_ready"] = TRUE

\* C16: has_fort_files is true exactly when fort.4.melt, fort.4.cool,
\* fort.4.equil and fort.4.prod all exist: it is false with any one of them
\* removed, and it is a function of the file names alone, so the value does
\* not depend on the document or on the content of the files.
C16_HasFortFiles ==
  /\ has_fort_files(ws) <=> (TemplateNames \subseteq DOMAIN ws)
  /\ \A g \in TemplateNames : ~has_fort_files(Without(ws, g))
  /\ \A g \in TemplateNames : has_fort_files(Put(ws, g, Plain)) <=>
                                (TemplateNames \ {g} \subseteq DOMAIN ws)

\* the four templates exist, the labels have been evaluated, and the
\* workspace without fort.4.prod does not pass
C16_Witness ==
  /\ has_fort_files(ws)
  /\ Set(doc, "files_ready")
  /\ ~has_fort_files(Without(ws, Fort4("prod")))

\* C17: in every state where run_prod is eligible prod_replicates_done and
\* num_prod_replicates are set, so the increment in run_prod finds the field.
C17_ProdCountersInitialised ==
  Eligible_run_prod =>
    (Set(doc, "prod_replicates_done") /\ Set(doc, "num_prod_replicates"))

\* C18: whenever the production stage is done (prod_finished and
\* all_prod_replicates_done both hold), for every K in
\* 1..num_prod_replicates the log run.prodK exists and contains
\* "Program ended".
C18_AllReplicatesPresent ==
  (Truthy(prod_finished(ws, doc)) /\ all_prod_replicates_done(doc)) =>
    \A K \in 1..doc["num_prod_replicates"] : LogEndedIn(ws, "prod", K)

\* no stage runner is eligible
NoRunnerEligible ==
  ~Eligible_run_melt /\ ~Eligible_run_cool /\ ~Eligible_run_equil /\ ~Eligible_run_prod

\* C19: a mcccs/pentaneUA/NPT job that starts from an empty workspace and
\* document, with every eligible operation eventually executed and every
\* engine invocation normal, eventually has prod_replicates_done =
\* num_prod_replicates = 4 with no stage runner eligible, and stays so.
C19_EventuallyDone ==
  <>[](/\ Set(doc, "prod_replicates_done") /\ doc["prod_replicates_done"] = 4
       /\ Set(doc, "num_prod_replicates") /\ doc["num_prod_replicates"] = 4
       /\ NoRunnerEligible)

\* C20: once melt_finished is true it is true in every later state, and so
\* are cool_finished and equil_finished: no operation that is eligible
\* afterwards rewrites or removes run.melt, run.cool or run.equil.
C20_CompletionStable ==
  [][ /\ Truthy(melt_finished(ws)) => Truthy(melt_finished(ws'))
      /\ Truthy(cool_finished(ws)) => Truthy(cool_finished(ws'))
      /\ Truthy(equil_finished(ws)) => Truthy(equil_finished(ws')) ]_vars

====
